---- MODULE Spec2Model ----
(***************************************************************************)
(* Model of the Aurigin trade transformer (src/streamlit.py): DateUtils,   *)
(* TickerBuilder and process_trades.                                       *)
(*                                                                         *)
(* Python str values are modelled as sequences of one-character strings,   *)
(* so that upper(), strip(), startswith(), "in", replace() and strptime    *)
(* are computed character by character.  Str(s) joins such a sequence into *)
(* a TLA+ string for comparison with literals.                             *)
(***************************************************************************)
EXTENDS Integers, Sequences, FiniteSets, TLC

VARIABLES
    df_input,      \* process_trades: the input table, a sequence of rows
    ncols,         \* process_trades: len(df_input.columns)
    futures_map,   \* process_trades: the symbol mapping passed in
    trade_date,    \* process_trades: the trade date passed in
    out_options,   \* process_trades: the options output table
    out_futures,   \* process_trades: the futures output table
    pc,            \* "input" | "done" | "error" | "call" | "ret"
    arg,           \* argument record of the pure function under check
    ret            \* its result record

vars == <<df_input, ncols, futures_map, trade_date, out_options, out_futures,
          pc, arg, ret>>

----------------------------------------------------------------------------
(* Python str primitives *)

Range(s) == {s[i] : i \in DOMAIN s}

RECURSIVE Str(_)
Str(s) == IF s = <<>> THEN "" ELSE Head(s) \o Str(Tail(s))

LowerChars == <<"a","b","c","d","e","f","g","h","i","j","k","l","m",
                "n","o","p","q","r","s","t","u","v","w","x","y","z">>
UpperChars == <<"A","B","C","D","E","F","G","H","I","J","K","L","M",
                "N","O","P","Q","R","S","T","U","V","W","X","Y","Z">>
DigitChars == <<"0","1","2","3","4","5","6","7","8","9">>

\* str.upper()
UpperOf == [c \in Range(LowerChars) |->
               UpperChars[CHOOSE i \in DOMAIN LowerChars : LowerChars[i] = c]]
UpperChar(c) == IF c \in DOMAIN UpperOf THEN UpperOf[c] ELSE c
upper(s) == [i \in DOMAIN s |-> UpperChar(s[i])]

\* str.strip()
IsSpace(c) == c \in {" ", "\t"}
RECURSIVE lstrip(_)
lstrip(s) == IF s # <<>> /\ IsSpace(Head(s)) THEN lstrip(Tail(s)) ELSE s
RECURSIVE rstrip(_)
rstrip(s) ==
    IF s # <<>> /\ IsSpace(s[Len(s)]) THEN rstrip(SubSeq(s, 1, Len(s) - 1)) ELSE s
strip(s) == rstrip(lstrip(s))

\* str.startswith(p)
startswith(s, p) == Len(s) >= Len(p) /\ SubSeq(s, 1, Len(p)) = p

\* "p in s"
contains(s, p) ==
    \E i \in 1..(Len(s) - Len(p) + 1) : SubSeq(s, i, i + Len(p) - 1) = p

\* str.replace(old, new) for a one-character old
replace(s, old, new) == [i \in DOMAIN s |-> IF s[i] = old THEN new ELSE s[i]]

\* str.replace(old, "") for a one-character old
remove(s, old) == SelectSeq(s, LAMBDA c : c # old)

\* str.split(sep) for a one-character sep
RECURSIVE split(_, _)
split(s, sep) ==
    IF \A i \in DOMAIN s : s[i] # sep
    THEN <<s>>
    ELSE LET k == CHOOSE i \in DOMAIN s :
                      s[i] = sep /\ \A j \in 1..(i - 1) : s[j] # sep
         IN  <<SubSeq(s, 1, k - 1)>> \o split(SubSeq(s, k + 1, Len(s)), sep)

DigitOf == [c \in Range(DigitChars) |->
               (CHOOSE i \in DOMAIN DigitChars : DigitChars[i] = c) - 1]
IsDigit(c) == c \in DOMAIN DigitOf
DigitVal(c) == DigitOf[c]
AllDigits(s) == \A i \in DOMAIN s : IsDigit(s[i])

\* int(s) for a string of digits
RECURSIVE IntOf(_)
IntOf(s) ==
    IF s = <<>> THEN 0
    ELSE 10 * IntOf(SubSeq(s, 1, Len(s) - 1)) + DigitVal(s[Len(s)])

\* "%02d" % n  and  "%04d" % n
Pad2(n) == <<DigitChars[((n \div 10) % 10) + 1], DigitChars[(n % 10) + 1]>>
Pad4(n) == Pad2(n \div 100) \o Pad2(n % 100)

----------------------------------------------------------------------------
(* datetime.date arithmetic, as CPython's datetime module computes it *)

NoDate == [ok |-> FALSE, year |-> 0, month |-> 0, day |-> 0]
date(y, m, d) == [ok |-> TRUE, year |-> y, month |-> m, day |-> d]

IsLeap(y) == y % 4 = 0 /\ (y % 100 # 0 \/ y % 400 = 0)

\* calendar.monthrange(y, m)[1]
DaysInMonth(y, m) ==
    IF m = 2 THEN (IF IsLeap(y) THEN 29 ELSE 28)
    ELSE IF m \in {4, 6, 9, 11} THEN 30 ELSE 31

ValidYMD(y, m, d) ==
    /\ y \in 1..9999
    /\ m \in 1..12
    /\ d >= 1
    /\ d <= DaysInMonth(y, m)

RECURSIVE DaysBeforeMonth(_, _)
DaysBeforeMonth(y, m) ==
    IF m = 1 THEN 0 ELSE DaysBeforeMonth(y, m - 1) + DaysInMonth(y, m - 1)

\* date.toordinal()
toordinal(dt) ==
    LET y1 == dt.year - 1
    IN  y1 * 365 + (y1 \div 4) - (y1 \div 100) + (y1 \div 400)
          + DaysBeforeMonth(dt.year, dt.month) + dt.day

\* date.weekday(): Monday = 0 ... Sunday = 6
weekday(dt) == (toordinal(dt) + 6) % 7

\* d1 < d2 on dates
DateLT(a, b) ==
    \/ a.year < b.year
    \/ a.year = b.year /\ a.month < b.month
    \/ a.year = b.year /\ a.month = b.month /\ a.day < b.day

Abs(n) == IF n < 0 THEN -n ELSE n

----------------------------------------------------------------------------
(* Constants of the module *)

MONTH_CODE == <<"F", "G", "H", "J", "K", "M", "N", "Q", "U", "V", "X", "Z">>

----------------------------------------------------------------------------
(* class DateUtils *)

\* the formats with the month-first ones tried before the day-first ones
formats_month_first ==
    << <<"m", "d", "Y">>, <<"m", "d", "y">>, <<"d", "m", "Y">>,
       <<"d", "m", "y">>, <<"Y", "m", "d">>, <<"Y", "d", "m">> >>

\* The six explicit formats of parse_date, in the order they are tried; every
\* format is three directives separated by "/".
formats ==
    << <<"d", "m", "Y">>, <<"d", "m", "y">>, <<"m", "d", "Y">>,
       <<"m", "d", "y">>, <<"Y", "m", "d">>, <<"Y", "d", "m">> >>

\* The regular expression of one strptime directive, matched against the
\* whole field between two separators:
\*   %d  3[0-1]|[1-2]\d|0[1-9]|[1-9]| [1-9]     %m  1[0-2]|0[1-9]|[1-9]
\*   %y  \d\d                                   %Y  \d\d\d\d
DirectiveMatch(dir, tok) ==
    CASE dir = "d" ->
            \/ Len(tok) = 2 /\ AllDigits(tok) /\ IntOf(tok) \in 1..31
            \/ Len(tok) = 1 /\ AllDigits(tok) /\ IntOf(tok) \in 1..9
            \/ Len(tok) = 2 /\ tok[1] = " " /\ IsDigit(tok[2]) /\ tok[2] # "0"
      [] dir = "m" ->
            \/ Len(tok) = 2 /\ AllDigits(tok) /\ IntOf(tok) \in 1..12
            \/ Len(tok) = 1 /\ AllDigits(tok) /\ IntOf(tok) \in 1..9
      [] dir = "y" -> Len(tok) = 2 /\ AllDigits(tok)
      [] dir = "Y" -> Len(tok) = 4 /\ AllDigits(tok)

DirectiveVal(dir, tok) ==
    LET n == IntOf(SelectSeq(tok, IsDigit))
    IN  IF dir = "y" THEN (IF n <= 68 THEN 2000 + n ELSE 1900 + n) ELSE n

\* datetime.strptime(s, fmt): NoDate stands for the ValueError it raises
strptime(s, fmt) ==
    LET toks == split(s, "/")
        pos(dir) == CHOOSE i \in 1..3 : fmt[i] = dir \/ (dir = "Y" /\ fmt[i] = "y")
    IN  IF Len(toks) # 3 \/ \E i \in 1..3 : ~DirectiveMatch(fmt[i], toks[i])
        THEN NoDate
        ELSE LET y == DirectiveVal(fmt[pos("Y")], toks[pos("Y")])
                 m == DirectiveVal("m", toks[pos("m")])
                 d == DirectiveVal("d", toks[pos("d")])
             IN  IF ValidYMD(y, m, d) THEN date(y, m, d) ELSE NoDate

\* pd.to_datetime(s, dayfirst=True, errors="coerce"), reached only when all six
\* formats failed.  A compact eight-digit text is first read by the ISO 8601
\* parser as YYYYMMDD, whatever dayfirst says; when that is no date, the
\* permissive parser reads the same three fields as year, day, month if the
\* last field can be a month.  A text of three numeric fields of one or two
\* digits and a four-digit year has only the day-first and the month-first
\* reading, both already rejected by strptime, and other text is no date: NaT,
\* which parse_date turns into None.
to_datetime(s) ==
    IF Len(s) = 8 /\ AllDigits(s)
    THEN LET y  == IntOf(SubSeq(s, 1, 4))
             f2 == IntOf(SubSeq(s, 5, 6))
             f3 == IntOf(SubSeq(s, 7, 8))
         IN  IF ValidYMD(y, f2, f3) THEN date(y, f2, f3)
             ELSE IF f3 <= 12 /\ ValidYMD(y, f3, f2) THEN date(y, f3, f2)
             ELSE NoDate
    ELSE NoDate

\* the for-loop over formats: the first format that parses wins
RECURSIVE TryFormats(_, _)
TryFormats(s, fmts) ==
    IF fmts = <<>> THEN to_datetime(s)
    ELSE LET dt == strptime(s, Head(fmts))
         IN  IF dt.ok THEN dt ELSE TryFormats(s, Tail(fmts))

parse_date(date_str) ==
    LET s == replace(replace(strip(date_str), ".", "/"), "-", "/")
    IN  TryFormats(s, formats)

\* format_mmddyy with day and month exchanged in the strftime format
format_ddmmyy(date_str) ==
    LET dt == parse_date(date_str)
    IN  IF dt.ok
        THEN Pad2(dt.day) \o <<"/">> \o Pad2(dt.month) \o <<"/">> \o Pad2(dt.year % 100)
        ELSE <<>>

\* dt.strftime("%m/%d/%y") if dt else ""
format_mmddyy(date_str) ==
    LET dt == parse_date(date_str)
    IN  IF dt.ok
        THEN Pad2(dt.month) \o <<"/">> \o Pad2(dt.day) \o <<"/">> \o Pad2(dt.year % 100)
        ELSE <<>>

\* dt.strftime("%Y%m%d") if dt else ""
format_yyyymmdd(date_str) ==
    LET dt == parse_date(date_str)
    IN  IF dt.ok THEN Pad4(dt.year) \o Pad2(dt.month) \o Pad2(dt.day) ELSE <<>>

\* get_futures_code with str(dt.year)[0] for str(dt.year)[-1]
get_futures_code_first_digit(date_str) ==
    LET dt == parse_date(date_str)
    IN  IF ~dt.ok
        THEN [none |-> TRUE, mcode |-> <<>>, ycode |-> <<>>]
        ELSE [none |-> FALSE,
              mcode |-> <<MONTH_CODE[dt.month]>>,
              ycode |-> <<DigitChars[((dt.year \div 1000) % 10) + 1]>>]

\* (MONTH_CODE.get(dt.month), str(dt.year)[-1]), or (None, None)
get_futures_code(date_str) ==
    LET dt == parse_date(date_str)
    IN  IF ~dt.ok
        THEN [none |-> TRUE, mcode |-> <<>>, ycode |-> <<>>]
        ELSE [none |-> FALSE,
              mcode |-> <<MONTH_CODE[dt.month]>>,
              ycode |-> <<DigitChars[(dt.year % 10) + 1]>>]

cutoff == date(2025, 9, 1)

\* target_wd with "<= cutoff" for "< cutoff"
target_wd_inclusive(exp_dt) == IF DateLT(exp_dt, cutoff) \/ exp_dt = cutoff THEN 3 ELSE 1

\* target_wd = 3 if exp_dt.date() < cutoff else 1
target_wd(exp_dt) == IF DateLT(exp_dt, cutoff) THEN 3 ELSE 1

\* targets = [d for d in days if d.weekday() == target_wd]
month_targets(exp_dt) ==
    LET ndays == DaysInMonth(exp_dt.year, exp_dt.month)
        days  == [i \in 1..ndays |-> date(exp_dt.year, exp_dt.month, i)]
        wd    == target_wd(exp_dt)
    IN  SelectSeq(days, LAMBDA d : weekday(d) = wd)

\* min(targets, key=lambda d: abs((d - d0).days)): the first minimal element
RECURSIVE MinByDistance(_, _, _)
MinByDistance(best, rest, d0) ==
    IF rest = <<>> THEN best
    ELSE LET d == Head(rest)
         IN  IF Abs(toordinal(d) - toordinal(d0)) < Abs(toordinal(best) - toordinal(d0))
             THEN MinByDistance(d, Tail(rest), d0)
             ELSE MinByDistance(best, Tail(rest), d0)

nearest_target(targets, d0) == MinByDistance(Head(targets), Tail(targets), d0)

\* the ordinal without the "+ 1"
index_of_zero_based(targets, d) ==
    (CHOOSE i \in DOMAIN targets : targets[i] = d) - 1

\* targets.index(nearest) + 1
index_of(targets, d) == CHOOSE i \in DOMAIN targets :
                            targets[i] = d /\ \A j \in 1..(i - 1) : targets[j] # d

\* suffixes.get(ordinal, "")
suffixes(ordinal) ==
    CASE ordinal = 1 -> <<"C">>
      [] ordinal = 2 -> <<"D">>
      [] ordinal = 3 -> <<"E">>
      [] ordinal = 4 -> <<"F">>
      [] OTHER -> <<>>

get_nifty_weekly_suffix(exp_dt) ==
    LET targets == month_targets(exp_dt)
    IN  IF targets = <<>> THEN <<>>
        ELSE LET nearest == nearest_target(targets, exp_dt)
             IN  IF nearest = targets[Len(targets)] THEN <<>>
                 ELSE suffixes(index_of(targets, nearest))

----------------------------------------------------------------------------
(* Text literals of the source, as character sequences *)

OPTSTK == <<"O","P","T","S","T","K">>
OPTIDX == <<"O","P","T","I","D","X">>
FUTSTK == <<"F","U","T","S","T","K">>
FUTIDX == <<"F","U","T","I","D","X">>
UPDATE == <<"U","P","D","A","T","E">>
NIFTY == <<"N","I","F","T","Y">>
NSEBANK == <<"N","S","E","B","A","N","K">>
BANKNIFTY == <<"B","A","N","K","N","I","F","T","Y">>
NMIDSELP == <<"N","M","I","D","S","E","L","P">>
MIDCPNIFTY == <<"M","I","D","C","P","N","I","F","T","Y">>
FINNIFTY == <<"F","I","N","N","I","F","T","Y">>
NIFTYFIN == <<"N","I","F","T","Y","F","I","N">>
RELIANCE == <<"R","E","L","I","A","N","C","E">>

INDEX_OPTIONS_MAPPING ==
    (NIFTY :> NIFTY) @@ (NSEBANK :> NSEBANK) @@ (BANKNIFTY :> NSEBANK) @@
    (NMIDSELP :> NMIDSELP) @@ (MIDCPNIFTY :> NMIDSELP) @@
    (FINNIFTY :> FINNIFTY) @@ (NIFTYFIN :> FINNIFTY)

DEFAULT_FUTURES_MAPPING ==
    (NIFTY :> NIFTY) @@ (BANKNIFTY :> NSEBANK) @@ (FINNIFTY :> FINNIFTY) @@
    (MIDCPNIFTY :> NMIDSELP)

\* dict.get(key, default)
Get(d, key, default) == IF key \in DOMAIN d THEN d[key] ELSE default

----------------------------------------------------------------------------
(* class TickerBuilder *)

\* str.replace(pat, "") for a pattern of several characters
RECURSIVE remove_sub(_, _)
remove_sub(s, pat) ==
    IF Len(s) < Len(pat) THEN s
    ELSE IF SubSeq(s, 1, Len(pat)) = pat
         THEN remove_sub(SubSeq(s, Len(pat) + 1, Len(s)), pat)
         ELSE <<Head(s)>> \o remove_sub(Tail(s), pat)

\* str(strike).replace(",", "").replace(r'\.0+$', ''): the second replace is
\* a plain str.replace, which removes the five literal characters \.0+$
normalize_strike(strike) ==
    remove_sub(remove(strike, ","), <<"\\", ".", "0", "+", "$">>)

\* _get_cp_letter with the put test before the call test
_get_cp_letter_put_first(option_type) ==
    LET s == strip(upper(option_type))
    IN  IF startswith(s, <<"P">>) \/ contains(s, <<"P","E">>) THEN <<"P">>
        ELSE IF startswith(s, <<"C">>) THEN <<"C">>
        ELSE <<>>

_get_cp_letter(option_type) ==
    LET s == strip(upper(option_type))
    IN  IF \/ s \in {<<"C">>, <<"C","E">>, <<"C","A","L","L">>, <<"C","A","L","L","S">>}
           \/ startswith(s, <<"C">>)
        THEN <<"C">>
        ELSE IF \/ s \in {<<"P">>, <<"P","E">>, <<"P","U","T">>, <<"P","U","T","S">>}
                \/ startswith(s, <<"P">>)
                \/ contains(s, <<"P","E">>)
             THEN <<"P">>
             ELSE <<>>

\* build_option_ticker without the 'ticker != "UPDATE"' test of the OPTSTK branch
build_option_ticker_unchecked(fmap, instrument, symbol, expiry, strike0, option_type) ==
    LET exp_fmt == format_mmddyy(expiry)
        cp      == _get_cp_letter(option_type)
        strike  == normalize_strike(strike0)
    IN  IF instrument = OPTSTK
        THEN LET ticker == Get(fmap, symbol, UPDATE)
             IN  IF exp_fmt # <<>> /\ cp # <<>> /\ strike # <<>>
                 THEN ticker \o <<" ","I","S"," ">> \o exp_fmt \o <<" ">> \o cp
                        \o strike \o <<" ","E","q","u","i","t","y">>
                 ELSE UPDATE
        ELSE LET ticker0 == Get(INDEX_OPTIONS_MAPPING, symbol, <<>>)
                 dt      == parse_date(expiry)
                 ticker  == IF ticker0 = NIFTY /\ dt.ok
                            THEN ticker0 \o get_nifty_weekly_suffix(dt)
                            ELSE ticker0
             IN  IF ticker # <<>> /\ exp_fmt # <<>> /\ cp # <<>> /\ strike # <<>>
                 THEN ticker \o <<" ">> \o exp_fmt \o <<" ">> \o cp
                        \o strike \o <<" ","I","n","d","e","x">>
                 ELSE UPDATE

build_option_ticker(fmap, instrument, symbol, expiry, strike0, option_type) ==
    LET exp_fmt == format_mmddyy(expiry)
        cp      == _get_cp_letter(option_type)
        strike  == normalize_strike(strike0)
    IN  IF instrument = OPTSTK
        THEN LET ticker == Get(fmap, symbol, UPDATE)
             IN  IF ticker # UPDATE /\ exp_fmt # <<>> /\ cp # <<>> /\ strike # <<>>
                 THEN ticker \o <<" ","I","S"," ">> \o exp_fmt \o <<" ">> \o cp
                        \o strike \o <<" ","E","q","u","i","t","y">>
                 ELSE UPDATE
        ELSE LET ticker0 == Get(INDEX_OPTIONS_MAPPING, symbol, <<>>)
                 dt      == parse_date(expiry)
                 ticker  == IF ticker0 = NIFTY /\ dt.ok
                            THEN ticker0 \o get_nifty_weekly_suffix(dt)
                            ELSE ticker0
             IN  IF ticker # <<>> /\ exp_fmt # <<>> /\ cp # <<>> /\ strike # <<>>
                 THEN ticker \o <<" ">> \o exp_fmt \o <<" ">> \o cp
                        \o strike \o <<" ","I","n","d","e","x">>
                 ELSE UPDATE

\* build_futures_ticker without the "mcode and ycode" tests
build_futures_ticker_no_code_test(fmap, instrument, symbol, expiry) ==
    LET code   == get_futures_code(expiry)
        ticker == Get(fmap, symbol, UPDATE)
        have   == ticker # UPDATE
    IN  IF instrument = FUTSTK
        THEN IF have
             THEN ticker \o <<"=">> \o code.mcode \o code.ycode
                    \o <<" ","I","S"," ","E","q","u","i","t","y">>
             ELSE UPDATE
        ELSE IF have
             THEN ticker \o code.mcode \o code.ycode \o <<" ","I","n","d","e","x">>
             ELSE UPDATE

build_futures_ticker(fmap, instrument, symbol, expiry) ==
    LET code   == get_futures_code(expiry)
        ticker == Get(fmap, symbol, UPDATE)
        have   == ticker # UPDATE /\ ~code.none /\ code.mcode # <<>> /\ code.ycode # <<>>
    IN  IF instrument = FUTSTK
        THEN IF have
             THEN ticker \o <<"=">> \o code.mcode \o code.ycode
                    \o <<" ","I","S"," ","E","q","u","i","t","y">>
             ELSE UPDATE
        ELSE IF have
             THEN ticker \o code.mcode \o code.ycode \o <<" ","I","n","d","e","x">>
             ELSE UPDATE

----------------------------------------------------------------------------
(* pandas.DataFrame, as far as process_trades uses it: the column labels in
   order, the length of the index, and one sequence of cells per column *)

NaN == <<"NaN">>

EmptyFrame == [columns |-> <<>>, index |-> 0, data |-> <<>>]

\* one assignment frame[name] = value
Scalar(name, v) == [name |-> name, scalar |-> TRUE, values |-> <<v>>]
Column(name, vals) == [name |-> name, scalar |-> FALSE, values |-> vals]

\* DataFrame.__setitem__ for a new column label.  A scalar is broadcast over
\* the index, so on a frame without rows it makes a column without cells.  A
\* non-empty list-like assigned to a frame whose index is empty first gives the
\* frame the value's index (DataFrame._ensure_valid_index), and the columns the
\* frame already has are reindexed to it and filled with NaN.
setitem(df, st) ==
    IF st.scalar
    THEN [columns |-> Append(df.columns, st.name),
          index   |-> df.index,
          data    |-> Append(df.data, [i \in 1..df.index |-> st.values[1]])]
    ELSE LET n  == Len(st.values)
             re == IF df.index = 0 /\ n > 0
                   THEN [columns |-> df.columns,
                         index   |-> n,
                         data    |-> [c \in DOMAIN df.data |-> [i \in 1..n |-> NaN]]]
                   ELSE df
         IN  [columns |-> Append(re.columns, st.name),
              index   |-> re.index,
              data    |-> Append(re.data, st.values)]

RECURSIVE assign_all(_, _)
assign_all(df, steps) ==
    IF steps = <<>> THEN df ELSE assign_all(setitem(df, Head(steps)), Tail(steps))

\* frame[name], as the sequence of its cells
col(df, name) == df.data[CHOOSE i \in DOMAIN df.columns : df.columns[i] = name]

----------------------------------------------------------------------------
(* process_trades *)

INPUT_COLUMNS ==
    [tm_name |-> 3, instrument |-> 4, symbol |-> 5, expiry |-> 6, strike |-> 8,
     option_type |-> 9, side |-> 10, quantity |-> 12, price |-> 13]

L_NEW == <<"N","E","W">>
L_PLEASE_FILL == <<"P","L","E","A","S","E"," ","F","I","L","L">>
L_1 == <<"1">>
L_0 == <<"0">>
L_INR == <<"I","N","R">>
L_AUM01 == <<"A","U","M","0","1">>
L_GS == <<"G","S"," ","I","n","d","i","a"," ","F","u","t","u","r","e","s">>
L_ACCOUNT == <<"O","O","I","9","3","8","9","0">>
L_TRADER == <<"A","n","u","r","a","g"," ","G","u","p","t","a">>
L_B == <<"B">>
L_S == <<"S">>
FULO == <<"F","U","L","O">>
FUSH == <<"F","U","S","H">>

\* Series.str.replace(r'\.0+$', '', regex=True): a dot followed by nothing but
\* one or more zeros, at the end of the text, is removed
RECURSIVE rstrip_zeros(_)
rstrip_zeros(s) ==
    IF s # <<>> /\ s[Len(s)] = "0" THEN rstrip_zeros(SubSeq(s, 1, Len(s) - 1)) ELSE s

sub_zero_decimals(s) ==
    LET t == rstrip_zeros(s)
    IN  IF Len(t) < Len(s) /\ t # <<>> /\ t[Len(t)] = "."
        THEN SubSeq(t, 1, Len(t) - 1)
        ELSE s

\* extract_data(df): the nine input columns as text, "" for a column the
\* table does not have, the strike normalised
extract_data(df, n) ==
    [i \in DOMAIN df |->
        [k \in DOMAIN INPUT_COLUMNS |->
            LET v == IF INPUT_COLUMNS[k] < n THEN df[i][k] ELSE <<>>
            IN  IF k = "strike" THEN sub_zero_decimals(remove(v, ",")) ELSE v]]

\* options_mask without the .str.upper() of instr_values
options_mask_no_upper(row) == row.instrument \in {OPTSTK, OPTIDX}

\* instr_values.isin(["OPTSTK", "OPTIDX"]) and isin(["FUTSTK", "FUTIDX"])
options_mask(row) == upper(row.instrument) \in {OPTSTK, OPTIDX}
futures_mask(row) == upper(row.instrument) \in {FUTSTK, FUTIDX}

\* "B" if s.upper().startswith("B") else "S"
action_code(side) == IF startswith(upper(side), L_B) THEN L_B ELSE L_S

\* the chain with a bought put made FULO, as a bought call is
option_strategy_symmetric(side, opt_type) ==
    LET s == strip(upper(side))
        t == strip(upper(opt_type))
        call == startswith(t, <<"C">>)
        put  == startswith(t, <<"P">>) \/ contains(t, <<"P","E">>)
    IN  IF startswith(s, L_B) /\ (call \/ put) THEN FULO
        ELSE IF startswith(s, L_S) /\ (call \/ put) THEN FUSH
        ELSE FULO

\* the if/elif chain that fills the options Strategy column
option_strategy(side, opt_type) ==
    LET s == strip(upper(side))
        t == strip(upper(opt_type))
        call == t \in {<<"C","E">>, <<"C">>} \/ startswith(t, <<"C">>)
        put  == \/ t \in {<<"P","E">>, <<"P">>}
                \/ startswith(t, <<"P">>)
                \/ contains(t, <<"P","E">>)
    IN  IF startswith(s, L_B) /\ call THEN FULO
        ELSE IF startswith(s, L_S) /\ call THEN FUSH
        ELSE IF startswith(s, L_B) /\ put THEN FUSH
        ELSE IF startswith(s, L_S) /\ put THEN FUSH
        ELSE FULO

\* "FULO" if s.upper().startswith("B") else "FUSH"
futures_strategy(side) == IF startswith(upper(side), L_B) THEN FULO ELSE FUSH

Field(data, k) == [i \in DOMAIN data |-> data[i][k]]

\* the TBD loop as range(1, 5)
TBD_columns_four == [i \in 1..4 |-> Scalar("TBD" \o ToString(i), <<>>)]

TBD_columns == [i \in 1..5 |-> Scalar("TBD" \o ToString(i), <<>>)]
UserDefined_columns == [i \in 1..5 |-> Scalar("UserDefined" \o ToString(i), <<>>)]

\* the assignments that build out_options, in the order of the code
options_steps(fmap, tdate, data) ==
    << Scalar("RequestType", L_NEW),
       Scalar("ExternalReference", L_PLEASE_FILL),
       Scalar("RevisionNumber", L_1),
       Column("SecurityIdentifier",
              [i \in DOMAIN data |->
                  build_option_ticker(fmap, data[i].instrument, data[i].symbol,
                                      data[i].expiry, data[i].strike,
                                      data[i].option_type)]),
       Column("ActionCode", [i \in DOMAIN data |-> action_code(data[i].side)]),
       Column("Quantity", Field(data, "quantity")),
       Column("Price", Field(data, "price")),
       Scalar("TradeDate", tdate),
       Scalar("SettlementDate", tdate),
       Scalar("SettlementCurrency", L_INR),
       Scalar("SettlementRate", L_1),
       Scalar("Tax", <<>>),
       Scalar("Commission", L_0),
       Scalar("OtherFee", L_0),
       Scalar("Memo", <<>>),
       Scalar("LegalEntity", L_AUM01),
       Column("Counterparty", Field(data, "tm_name")),
       Scalar("OptionClearer", L_GS),
       Scalar("OptionClearerAccount", L_ACCOUNT),
       Column("Strategy",
              [i \in DOMAIN data |->
                  option_strategy(data[i].side, data[i].option_type)]),
       Scalar("FundStructure", <<>>),
       Scalar("Trader", L_TRADER) >>
    \o TBD_columns \o UserDefined_columns

\* the assignments that build out_futures, in the order of the code
futures_steps(fmap, tdate, data) ==
    << Scalar("RequestType", L_NEW),
       Scalar("ExternalReference", L_PLEASE_FILL),
       Scalar("RevisionNumber", L_1),
       Column("ActionCode", [i \in DOMAIN data |-> action_code(data[i].side)]),
       Column("SecurityIdentifier",
              [i \in DOMAIN data |->
                  build_futures_ticker(fmap, data[i].instrument, data[i].symbol,
                                       data[i].expiry)]),
       Column("Quantity", Field(data, "quantity")),
       Column("Price", Field(data, "price")),
       Scalar("TradeDate", tdate),
       Scalar("SettlementCurrency", L_INR),
       Scalar("SettlementRate", <<>>),
       Scalar("Commission", <<>>),
       Scalar("OtherFee", <<>>),
       Scalar("Memo", <<>>),
       Scalar("LegalEntity", L_AUM01),
       Column("Counterparty", Field(data, "tm_name")),
       Column("Strategy", [i \in DOMAIN data |-> futures_strategy(data[i].side)]),
       Scalar("FuturesClearer", L_GS),
       Scalar("FuturesClearerAccount", L_ACCOUNT),
       Scalar("FundStructure", <<>>),
       Scalar("Trader", L_TRADER),
       Scalar("Exchange", <<>>),
       Scalar("ProductType", <<>>) >>
    \o TBD_columns \o UserDefined_columns

\* the option rows selected in reverse order
df_options_reversed(df) ==
    LET sel == SelectSeq(df, options_mask)
    IN  [i \in 1..Len(sel) |-> sel[Len(sel) + 1 - i]]

\* df_input[options_mask].reset_index(drop=True), likewise for futures
df_options(df) == SelectSeq(df, options_mask)
df_futures(df) == SelectSeq(df, futures_mask)

\* the column check with the 14 columns its message names
too_few_columns_fourteen(n) == 14 > n

\* "if 4 >= len(df_input.columns): raise ValueError"
too_few_columns(n) == 4 >= n

\* process_trades(df_input, futures_map, trade_date) for a table of n columns
process_trades(df, n, fmap, tdate) ==
    IF too_few_columns(n)
    THEN [raised |-> TRUE, out_options |-> EmptyFrame, out_futures |-> EmptyFrame]
    ELSE LET opts == df_options(df)
             futs == df_futures(df)
         IN  [raised |-> FALSE,
              out_options |->
                  IF Len(opts) > 0
                  THEN assign_all(EmptyFrame,
                                  options_steps(fmap, tdate, extract_data(opts, n)))
                  ELSE EmptyFrame,
              out_futures |->
                  IF Len(futs) > 0
                  THEN assign_all(EmptyFrame,
                                  futures_steps(fmap, tdate, extract_data(futs, n)))
                  ELSE EmptyFrame]

----------------------------------------------------------------------------
(* Bounds and input domains *)

MaxRows == 2        \* rows of an input table
MaxCpLen == 3       \* length of an option-type text
FirstYear == 2024   \* first year of the expiry dates drawn
NumYears == 3       \* number of years of expiry dates drawn
MaxField == 32      \* largest number written in a day or month field

NColsDomain == {4, 5, 10, 14}

TCS == <<"T","C","S">>

\* symbol mappings passed to process_trades: the mapping of the end-to-end
\* scenario, the built-in fallback, and a loaded mapping whose empty ticker
\* root was replaced by "UPDATE" on ingestion
MapScenario == (RELIANCE :> RELIANCE)
MapLoaded == (RELIANCE :> RELIANCE) @@ (NIFTY :> NIFTY) @@ (TCS :> UPDATE)
MapDomain == {MapScenario, DEFAULT_FUTURES_MAPPING, MapLoaded}

TradeDateDomain == {<<"2","0","2","5","0","1","1","0">>, <<"2","0","2","5","0","9","0","2">>}

InstrumentDomain == {OPTSTK, OPTIDX, FUTSTK, FUTIDX, <<"o","p","t","s","t","k">>, <<"f","u","t","s","t","k">>, <<"F","u","t","i","d","x">>, <<"E","Q">>}
SymbolDomain == {RELIANCE, NIFTY, BANKNIFTY, TCS}
ExpiryDomain == {<<"1","5","/","0","1","/","2","0","2","5">>, <<"3","0","/","0","1","/","2","0","2","5">>, <<"0","9","-","0","1","-","2","0","2","5">>, <<>>}
StrikeDomain == {<<"2","5","0","0">>, <<"2",",","5","0","0",".","0","0">>, <<>>}
OptionTypeDomain == {<<"C","E">>, <<"P","E">>, <<" ","p","e">>, <<"X","P","E">>, <<"X","Y","Z">>, <<>>}
SideDomain == {<<"B","U","Y">>, <<"S","E","L","L">>, <<"b","u","y">>, <<" ","B","U","Y">>, <<"H","O","L","D">>}

Row(tm, instr, sym, ex, st, ot, sd, q, pr) ==
    [tm_name |-> tm, instrument |-> instr, symbol |-> sym, expiry |-> ex,
     strike |-> st, option_type |-> ot, side |-> sd, quantity |-> q, price |-> pr]

\* rows of a one-row table: every combination of the fields the tickers, the
\* action code and the strategy are computed from
OneRowDomain ==
    {Row(<<"T","M","1">>, i, sy, ex, st, ot, sd, <<"1","0">>, <<"1","0","0",".","5">>) :
        i \in InstrumentDomain, sy \in SymbolDomain, ex \in ExpiryDomain,
        st \in StrikeDomain, ot \in OptionTypeDomain, sd \in SideDomain}

\* rows of a table of several rows: the rows of the end-to-end scenarios,
\* and rows that differ from them in one field
ScenarioOption == Row(<<"T","M","1">>, OPTSTK, RELIANCE, <<"1","5","/","0","1","/","2","0","2","5">>, <<"2","5","0","0">>, <<"C","E">>,
                      <<"B","U","Y">>, <<"1","0">>, <<"1","0","0",".","5">>)
ScenarioFuture == Row(<<"T","M","1">>, FUTIDX, NIFTY, <<"3","0","/","0","1","/","2","0","2","5">>, <<"2","5","0","0">>, <<"C","E">>,
                      <<"B","U","Y">>, <<"1","0">>, <<"1","0","0",".","5">>)
RowDomain ==
    {[ScenarioOption EXCEPT !.instrument = i, !.tm_name = tm] :
        i \in InstrumentDomain, tm \in {<<"T","M","1">>, <<"T","M","2">>}}
    \cup {ScenarioFuture,
          [ScenarioFuture EXCEPT !.side = <<"S","E","L","L">>, !.quantity = <<"2","5">>],
          [ScenarioOption EXCEPT !.symbol = NIFTY, !.instrument = OPTIDX,
                                 !.option_type = <<"P","E">>, !.side = <<"S","E","L","L">>],
          [ScenarioOption EXCEPT !.symbol = TCS, !.price = <<"7">>]}

\* a row as a table of n columns holds it
Masked(row, n) ==
    [k \in DOMAIN INPUT_COLUMNS |-> IF INPUT_COLUMNS[k] < n THEN row[k] ELSE <<>>]

\* the dates of the years drawn
YearDomain == FirstYear..(FirstYear + NumYears - 1)
DateDomain ==
    {date(y, m, d) : y \in YearDomain, m \in 1..12, d \in 1..31} \cap
    {dt \in [ok : {TRUE}, year : YearDomain, month : 1..12, day : 1..31] :
        ValidYMD(dt.year, dt.month, dt.day)}

\* day and month fields as written: 0..MaxField unpadded, 00..09 padded
NumText(n) == IF n < 10 THEN <<DigitChars[n + 1]>> ELSE Pad2(n)
FieldDomain == {NumText(n) : n \in 0..MaxField} \cup {Pad2(n) : n \in 0..9}
SepDomain == {"/", "-", "."}

\* texts of the form a/b/yyyy
ABYDomain ==
    {a \o <<s1>> \o b \o <<s2>> \o Pad4(y) :
        a \in FieldDomain, b \in FieldDomain, s1 \in SepDomain, s2 \in SepDomain,
        y \in YearDomain}

\* other date texts: two-digit years, year first, compact, and no date at all
OtherDateDomain ==
    {<<"1","5","/","0","1","/","2","5">>, <<"0","1","/","1","5","/","2","5">>, <<"3","/","4","/","2","5">>, <<"2","0","2","5","/","0","1","/","1","5">>, <<"2","0","2","5","/","1","5","/","0","1">>, <<"2","0","2","5","-","0","2","-","3","0">>,
     <<"2","0","2","5","0","1","1","5">>, <<"2","0","2","5","1","3","0","1">>, <<" ","1","5","/","0","1","/","2","0","2","5"," ">>, <<"a","b","c">>, <<>>}

DateTextDomain == ABYDomain \cup OtherDateDomain

CpAlphabet == {"C", "P", "E", "X", "c", "p", "e", " "}
CpTextDomain == UNION {[1..n -> CpAlphabet] : n \in 0..MaxCpLen}

NoCall == [fn |-> "none"]

----------------------------------------------------------------------------
(* process_trades on a table read row by row *)

InitTable ==
    /\ df_input = <<>>
    /\ ncols \in NColsDomain
    /\ futures_map = <<>>
    /\ trade_date = <<>>
    /\ out_options = EmptyFrame
    /\ out_futures = EmptyFrame
    /\ pc = "input"
    /\ arg = NoCall
    /\ ret = NoCall

\* one more row of the uploaded file
ReadRow ==
    /\ pc = "input"
    /\ Len(df_input) < MaxRows
    /\ \E row \in RowDomain : df_input' = Append(df_input, Masked(row, ncols))
    /\ UNCHANGED <<ncols, futures_map, trade_date, out_options, out_futures,
                   pc, arg, ret>>

\* the single row of a one-row file
ReadOneRow ==
    /\ pc = "input"
    /\ df_input = <<>>
    /\ \E row \in OneRowDomain : df_input' = <<Masked(row, ncols)>>
    /\ UNCHANGED <<ncols, futures_map, trade_date, out_options, out_futures,
                   pc, arg, ret>>

\* process_trades(df_input, futures_map, trade_date)
ProcessTrades ==
    /\ pc = "input"
    /\ \E fmap \in MapDomain, tdate \in TradeDateDomain :
          \E r \in {process_trades(df_input, ncols, fmap, tdate)} :
              /\ futures_map' = fmap
              /\ trade_date' = tdate
              /\ out_options' = r.out_options
              /\ out_futures' = r.out_futures
              /\ pc' = IF r.raised THEN "error" ELSE "done"
    /\ UNCHANGED <<df_input, ncols, arg, ret>>

Next == ReadRow \/ ProcessTrades
Spec == InitTable /\ [][Next]_vars

NextRow == ReadOneRow \/ ProcessTrades
SpecRow == InitTable /\ [][NextRow]_vars

----------------------------------------------------------------------------
(* The pure functions, applied to drawn inputs *)

InitCall(args) ==
    /\ df_input = <<>>
    /\ ncols = 0
    /\ futures_map = <<>>
    /\ trade_date = <<>>
    /\ out_options = EmptyFrame
    /\ out_futures = EmptyFrame
    /\ pc = "call"
    /\ arg \in args
    /\ ret = NoCall

CallVars == <<df_input, ncols, futures_map, trade_date, out_options, out_futures, arg>>

\* DateUtils.get_nifty_weekly_suffix(exp_dt), with its locals
InitSuffix == InitCall({[fn |-> "suffix", exp_dt |-> dt] : dt \in DateDomain})

CallSuffix ==
    /\ pc = "call"
    /\ arg.fn = "suffix"
    /\ ret' = [fn |-> "suffix",
               target_wd |-> target_wd(arg.exp_dt),
               targets |-> month_targets(arg.exp_dt),
               suffix |-> get_nifty_weekly_suffix(arg.exp_dt)]
    /\ pc' = "ret"
    /\ UNCHANGED CallVars

SpecSuffix == InitSuffix /\ [][CallSuffix]_vars

\* DateUtils.parse_date, format_mmddyy and format_yyyymmdd on a text, and
\* parse_date again on a text they returned
InitDate == InitCall({[fn |-> "date", text |-> t] : t \in DateTextDomain})

CallDate ==
    /\ pc = "call"
    /\ arg.fn = "date"
    /\ ret' = [fn |-> "date",
               dt |-> parse_date(arg.text),
               mmddyy |-> format_mmddyy(arg.text),
               yyyymmdd |-> format_yyyymmdd(arg.text)]
    /\ pc' = "ret"
    /\ UNCHANGED CallVars

Reparse ==
    /\ pc = "ret"
    /\ ret.fn = "date"
    /\ ret.dt.ok
    /\ \E f \in {"mmddyy", "yyyymmdd"} :
          ret' = [fn |-> "reparse",
                  dt |-> ret.dt,
                  format |-> f,
                  text |-> ret[f],
                  dt2 |-> parse_date(ret[f])]
    /\ pc' = "reparsed"
    /\ UNCHANGED CallVars

NextDate == CallDate \/ Reparse
SpecDate == InitDate /\ [][NextDate]_vars

\* TickerBuilder._get_cp_letter(option_type)
InitCp == InitCall({[fn |-> "cp", option_type |-> t] : t \in CpTextDomain})

CallCp ==
    /\ pc = "call"
    /\ arg.fn = "cp"
    /\ ret' = [fn |-> "cp", letter |-> _get_cp_letter(arg.option_type)]
    /\ pc' = "ret"
    /\ UNCHANGED CallVars

SpecCp == InitCp /\ [][CallCp]_vars

----------------------------------------------------------------------------
(* Properties *)

\* the instrument-type group of an input row, read off its text
IsOptionRow(row) == Str(upper(row.instrument)) \in {"OPTSTK", "OPTIDX"}
IsFutureRow(row) == Str(upper(row.instrument)) \in {"FUTSTK", "FUTIDX"}

OptionRows == SelectSeq(df_input, IsOptionRow)
FutureRows == SelectSeq(df_input, IsFutureRow)

\* every column of a frame has one cell per row of its index
WellFormed(df) ==
    /\ Len(df.data) = Len(df.columns)
    /\ \A c \in DOMAIN df.data : Len(df.data[c]) = df.index

\* C1: for a table of at least 5 columns, every input row is an option row, a
\* future row or dropped, and never two of these; the options output has one
\* row per option row, the futures output one row per future row, so the two
\* outputs' rows plus the dropped rows are the input rows.
C1_Partition ==
    (pc = "done" /\ ncols >= 5) =>
        LET O == {i \in DOMAIN df_input : IsOptionRow(df_input[i])}
            F == {i \in DOMAIN df_input : IsFutureRow(df_input[i])}
            D == {i \in DOMAIN df_input : i \notin O /\ i \notin F}
        IN  /\ O \cap F = {}
            /\ WellFormed(out_options)
            /\ WellFormed(out_futures)
            /\ out_options.index = Cardinality(O)
            /\ out_futures.index = Cardinality(F)
            /\ out_options.index + out_futures.index + Cardinality(D) = Len(df_input)

\* a table with an option row in lower case and a dropped row has been processed
C1_Witness ==
    /\ pc = "done"
    /\ Len(df_input) = 2
    /\ Str(df_input[1].instrument) = "optstk"
    /\ Str(df_input[2].instrument) = "EQ"
    /\ out_options.index = 1
    /\ out_futures.index = 0

\* the ticker of the only row of a one-row table, when it is an option row
OneOption == pc = "done" /\ Len(df_input) = 1 /\ IsOptionRow(df_input[1])
OneTicker == col(out_options, "SecurityIdentifier")[1]

\* expiry, strike and option type of a row are all given and valid
FullySpecified(row) ==
    /\ parse_date(row.expiry).ok
    /\ row.strike # <<>> /\ IsDigit(row.strike[1])
    /\ _get_cp_letter(row.option_type) # <<>>

\* C2 as stated: on an option row of either instrument type, a symbol of the
\* symbol mapping with expiry, strike and option type valid never gives
\* "UPDATE", and a symbol that the symbol mapping lacks always gives "UPDATE".
C2_AsStated ==
    OneOption =>
        LET row == df_input[1]
        IN  /\ (row.symbol \in DOMAIN futures_map /\ FullySpecified(row))
                   => Str(OneTicker) # "UPDATE"
            /\ row.symbol \notin DOMAIN futures_map => Str(OneTicker) = "UPDATE"

\* C2, amended: the symbol mapping decides only rows whose instrument text is
\* exactly OPTSTK, where a symbol mapped to a root other than "UPDATE" with
\* expiry, strike and option type valid never gives "UPDATE" and a symbol
\* that is absent or mapped to "UPDATE" always gives "UPDATE"; on every other
\* option row the fixed index mapping decides in the same way.
C2_MappingDecides ==
    OneOption =>
        LET row == df_input[1]
            m   == IF Str(row.instrument) = "OPTSTK"
                   THEN futures_map ELSE INDEX_OPTIONS_MAPPING
            mapped == row.symbol \in DOMAIN m /\ Str(m[row.symbol]) # "UPDATE"
        IN  /\ (mapped /\ FullySpecified(row)) => Str(OneTicker) # "UPDATE"
            /\ ~mapped => Str(OneTicker) = "UPDATE"

\* an OPTIDX row whose symbol the symbol mapping lacks got an index ticker
C2_Witness ==
    /\ OneOption
    /\ Str(df_input[1].instrument) = "OPTIDX"
    /\ df_input[1].symbol = NIFTY
    /\ futures_map = MapScenario
    /\ Str(OneTicker) = "NIFTYE 01/15/25 C2500 Index"

\* the futures rows of the end-to-end scenario and their tickers
ScenarioTickers ==
    {Str(col(out_futures, "SecurityIdentifier")[j]) :
        j \in {i \in DOMAIN FutureRows : FutureRows[i] = ScenarioFuture}}

\* C3 as stated: with the mapping {"RELIANCE": "RELIANCE"} and trade date
\* "20250110", the FUTIDX NIFTY 30/01/2025 row gets "NIFTYF5 Index".
C3_AsStated ==
    (pc = "done" /\ futures_map = MapScenario /\ Str(trade_date) = "20250110")
        => ScenarioTickers \subseteq {"NIFTYF5 Index"}

\* C3, amended: the FUTIDX NIFTY 30/01/2025 row gets "NIFTYF5 Index" when the
\* symbol mapping maps NIFTY to NIFTY, and "UPDATE" under the mapping
\* {"RELIANCE": "RELIANCE"}, which has no entry for NIFTY.
C3_ScenarioFuture ==
    pc = "done" =>
        /\ (NIFTY \in DOMAIN futures_map /\ futures_map[NIFTY] = NIFTY)
               => ScenarioTickers \subseteq {"NIFTYF5 Index"}
        /\ futures_map = MapScenario => ScenarioTickers \subseteq {"UPDATE"}
        /\ Cardinality({i \in DOMAIN df_input : df_input[i] = ScenarioFuture})
               <= out_futures.index

\* the scenario row was processed with NIFTY mapped and got its index ticker
C3_Witness ==
    /\ pc = "done"
    /\ Str(trade_date) = "20250110"
    /\ futures_map = DEFAULT_FUTURES_MAPPING
    /\ ScenarioTickers = {"NIFTYF5 Index"}

\* the strategy the decision table gives for a side and an option type
TableStrategy(side, opt_type) ==
    LET s  == strip(upper(side))
        b  == s # <<>> /\ s[1] = "B"
        sl == s # <<>> /\ s[1] = "S"
        cp == Str(_get_cp_letter(opt_type))
    IN  CASE b /\ cp = "C" -> "FULO"
          [] sl /\ cp = "C" -> "FUSH"
          [] (b \/ sl) /\ cp = "P" -> "FUSH"
          [] OTHER -> "FULO"

\* C7: the Strategy of every option row is the one the decision table gives
\* for its side and its option type: FULO for B and Call, FUSH for S and
\* Call, FUSH for B or S and Put, FULO for everything else.
C7_StrategyTable ==
    OneOption =>
        Str(col(out_options, "Strategy")[1])
            = TableStrategy(df_input[1].side, df_input[1].option_type)

\* a bought put was given FUSH
C7_Witness ==
    /\ OneOption
    /\ Str(df_input[1].side) = "BUY"
    /\ Str(df_input[1].option_type) = " pe"
    /\ Str(col(out_options, "Strategy")[1]) = "FUSH"

OptionsSchema ==
    <<"RequestType", "ExternalReference", "RevisionNumber", "SecurityIdentifier",
      "ActionCode", "Quantity", "Price", "TradeDate", "SettlementDate",
      "SettlementCurrency", "SettlementRate", "Tax", "Commission", "OtherFee",
      "Memo", "LegalEntity", "Counterparty", "OptionClearer",
      "OptionClearerAccount", "Strategy", "FundStructure", "Trader",
      "TBD1", "TBD2", "TBD3", "TBD4", "TBD5",
      "UserDefined1", "UserDefined2", "UserDefined3", "UserDefined4",
      "UserDefined5">>

FuturesSchema ==
    <<"RequestType", "ExternalReference", "RevisionNumber", "ActionCode",
      "SecurityIdentifier", "Quantity", "Price", "TradeDate",
      "SettlementCurrency", "SettlementRate", "Commission", "OtherFee", "Memo",
      "LegalEntity", "Counterparty", "Strategy", "FuturesClearer",
      "FuturesClearerAccount", "FundStructure", "Trader", "Exchange",
      "ProductType", "TBD1", "TBD2", "TBD3", "TBD4", "TBD5",
      "UserDefined1", "UserDefined2", "UserDefined3", "UserDefined4",
      "UserDefined5">>

\* C10 as stated: an options output with a row has exactly 30 columns, a
\* futures output with a row exactly 32.
C10_AsStated ==
    /\ out_options.index >= 1 => Len(out_options.columns) = 30
    /\ out_futures.index >= 1 => Len(out_futures.columns) = 32

\* C10, amended: an options output with a row has exactly the 32 columns of
\* the options schema (22 named columns, TBD1-5, UserDefined1-5) in schema
\* order, and a futures output with a row exactly the 32 columns of the
\* futures schema in schema order.
C10_Schema ==
    /\ out_options.index >= 1 =>
           out_options.columns = OptionsSchema /\ Len(out_options.columns) = 32
    /\ out_futures.index >= 1 =>
           out_futures.columns = FuturesSchema /\ Len(out_futures.columns) = 32

\* both outputs were emitted with a row
C10_Witness == pc = "done" /\ out_options.index >= 1 /\ out_futures.index >= 1

\* the day of the week by Sakamoto's formula: Sunday = 0 ... Saturday = 6
SakamotoOffsets == <<0, 3, 2, 5, 0, 3, 5, 1, 4, 6, 2, 4>>
DayOfWeek(y, m, d) ==
    LET yy == IF m < 3 THEN y - 1 ELSE y
    IN  (yy + (yy \div 4) - (yy \div 100) + (yy \div 400) + SakamotoOffsets[m] + d) % 7

\* the target weekday of an expiry: Thursday before 2025-09-01, Tuesday from then
TargetDay(dt) ==
    IF dt.year < 2025 \/ (dt.year = 2025 /\ dt.month < 9) THEN 4 ELSE 2

\* the days of dt's month that fall on its target weekday
TargetDays(dt) ==
    {d \in 1..DaysInMonth(dt.year, dt.month) :
        DayOfWeek(dt.year, dt.month, d) = TargetDay(dt)}

\* the target day nearest to dt, the earlier one of two equally near
NearestDay(dt) ==
    CHOOSE n \in TargetDays(dt) :
        \A t \in TargetDays(dt) :
            \/ Abs(n - dt.day) < Abs(t - dt.day)
            \/ Abs(n - dt.day) = Abs(t - dt.day) /\ n <= t

\* C4: the suffix of a date is "" when the target-weekday date of its month
\* nearest to it is the last one of the month, and otherwise the letter of
\* that date's ordinal in the month (1 C, 2 D, 3 E, 4 F); it is always one of
\* "", C, D, E, F.
C4_Suffix ==
    (pc = "ret" /\ ret.fn = "suffix") =>
        LET dt  == arg.exp_dt
            n   == NearestDay(dt)
            ord == Cardinality({t \in TargetDays(dt) : t <= n})
        IN  /\ Str(ret.suffix) \in {"", "C", "D", "E", "F"}
            /\ Str(ret.suffix) =
                   IF \A t \in TargetDays(dt) : t <= n THEN ""
                   ELSE CASE ord = 1 -> "C" [] ord = 2 -> "D"
                          [] ord = 3 -> "E" [] ord = 4 -> "F"

\* a date nearest to the fourth of five target days got the suffix F
C4_Witness ==
    /\ pc = "ret"
    /\ ret.fn = "suffix"
    /\ Len(ret.targets) = 5
    /\ Str(ret.suffix) = "F"

\* C5: the target days counted are the Thursdays of the month for an expiry
\* before 2025-09-01 and its Tuesdays from 2025-09-01 on; 2025-08-31 counts
\* the four Thursdays of August 2025 and 2025-09-01 the five Tuesdays of
\* September 2025.
C5_TargetWeekday ==
    (pc = "ret" /\ ret.fn = "suffix") =>
        LET dt   == arg.exp_dt
            days == [i \in DOMAIN ret.targets |-> ret.targets[i].day]
        IN  /\ Range(days) = TargetDays(dt)
            /\ \A i \in DOMAIN ret.targets :
                  /\ ret.targets[i].year = dt.year
                  /\ ret.targets[i].month = dt.month
            /\ Len(days) \in {4, 5}
            /\ dt = date(2025, 8, 31) => days = <<7, 14, 21, 28>>
            /\ dt = date(2025, 9, 1) => days = <<2, 9, 16, 23, 30>>
            /\ dt = date(2025, 1, 15) => days = <<2, 9, 16, 23, 30>>
            /\ dt = date(2025, 10, 1) => days = <<7, 14, 21, 28>>

\* the suffix of 2025-09-01 was computed: the first day on the Tuesday side
C5_Witness ==
    /\ pc = "ret"
    /\ ret.fn = "suffix"
    /\ arg.exp_dt = date(2025, 9, 1)
    /\ Len(ret.targets) = 5

Suffix(dt) == Str(get_nifty_weekly_suffix(dt))

\* C6 as stated: the date parsed back from the MM/DD/YY or the YYYYMMDD text
\* of a date has the weekly suffix of that date.
C6_AsStated ==
    (pc = "reparsed" /\ ret.fn = "reparse") =>
        ret.dt2.ok /\ Suffix(ret.dt2) = Suffix(ret.dt)

\* C6, amended: the YYYYMMDD text of a date parses back to that date, and so
\* does its MM/DD/YY text when the day of the month is above 12 or equals
\* the month number: the suffix is then the same.  Any other MM/DD/YY text
\* parses back day-first, to the date with day and month exchanged, and the
\* suffix is that of the exchanged date.
C6_Reparse ==
    (pc = "reparsed" /\ ret.fn = "reparse") =>
        LET dt == ret.dt
        IN  IF ret.format = "yyyymmdd" \/ dt.day > 12 \/ dt.day = dt.month
            THEN ret.dt2 = dt /\ Suffix(ret.dt2) = Suffix(dt)
            ELSE /\ ret.dt2 = date(dt.year, dt.day, dt.month)
                 /\ Suffix(ret.dt2) = Suffix(date(dt.year, dt.day, dt.month))

\* 12 January 2025 came back from its MM/DD/YY text as 1 December 2025
C6_Witness ==
    /\ pc = "reparsed"
    /\ ret.fn = "reparse"
    /\ ret.format = "mmddyy"
    /\ ret.dt = date(2025, 1, 12)
    /\ ret.dt2 = date(2025, 12, 1)
    /\ Suffix(ret.dt) # Suffix(ret.dt2)

\* the letter the classification rule gives an option-type text
CpRule(text) ==
    LET s == strip(upper(text))
        startsC == s # <<>> /\ s[1] = "C"
        startsP == s # <<>> /\ s[1] = "P"
        hasPE   == \E i \in 1..(Len(s) - 1) : s[i] = "P" /\ s[i + 1] = "E"
    IN  IF startsC THEN "C" ELSE IF startsP \/ hasPE THEN "P" ELSE ""

\* C8: _get_cp_letter gives "C" to every text that starts with C once
\* uppercased and trimmed, "P" to every other text that starts with P or
\* contains "PE", and "" to all the rest.
C8_CpLetter ==
    (pc = "ret" /\ ret.fn = "cp") => Str(ret.letter) = CpRule(arg.option_type)

\* "cPE", which starts with C and contains PE, was classified as a call
C8_Witness ==
    /\ pc = "ret"
    /\ ret.fn = "cp"
    /\ Str(arg.option_type) = "cPE"
    /\ Str(ret.letter) = "C"

\* the fields a, b, yyyy of a text of the form a/b/yyyy, separators . - /
ABYFields(text) ==
    split([i \in DOMAIN text |-> IF text[i] \in SepDomain THEN "/" ELSE text[i]], "/")
IsABY(text) ==
    LET f == ABYFields(text)
    IN  /\ Len(f) = 3
        /\ Len(f[1]) \in {1, 2} /\ AllDigits(f[1])
        /\ Len(f[2]) \in {1, 2} /\ AllDigits(f[2])
        /\ Len(f[3]) = 4 /\ AllDigits(f[3])

\* C9: a text a/b/yyyy parses as day a, month b whenever that is a date, as
\* month a, day b only when it is not and the month-first reading is a date,
\* and as no date when neither is; text that no strategy parses gives no
\* date, and with no date both formatters return "".
C9_DayFirst ==
    (pc = "ret" /\ ret.fn = "date") =>
        /\ IsABY(arg.text) =>
              LET f == ABYFields(arg.text)
                  a == IntOf(f[1])
                  b == IntOf(f[2])
                  y == IntOf(f[3])
              IN  ret.dt = IF ValidYMD(y, b, a) THEN date(y, b, a)
                           ELSE IF ValidYMD(y, a, b) THEN date(y, a, b)
                           ELSE NoDate
        /\ Str(arg.text) \in {"abc", "", "2025-02-30"} => ret.dt = NoDate
        /\ ret.dt = NoDate => ret.mmddyy = <<>> /\ ret.yyyymmdd = <<>>

\* "1/15/2025", no date day-first, was read month-first as 15 January 2025
C9_Witness ==
    /\ pc = "ret"
    /\ ret.fn = "date"
    /\ Str(arg.text) = "1/15/2025"
    /\ ret.dt = date(2025, 1, 15)
    /\ Str(ret.mmddyy) = "01/15/25"

\* the only row of a one-row table is a future row, and the table was processed
OneFuture == pc = "done" /\ Len(df_input) = 1 /\ IsFutureRow(df_input[1])

\* C11: process_trades raises the structural error exactly when the table has
\* fewer than 5 columns, and then returns no output table; for a table of 5
\* or more columns, also one of fewer than 14, it raises nothing and returns
\* both output tables, each with one row per row of its group.
C11_StructuralError ==
    pc \in {"done", "error"} =>
        /\ pc = "error" <=> ncols < 5
        /\ pc = "error" => out_options = EmptyFrame /\ out_futures = EmptyFrame
        /\ pc = "done" =>
               /\ WellFormed(out_options)
               /\ WellFormed(out_futures)
               /\ out_options.index = Len(OptionRows)
               /\ out_futures.index = Len(FutureRows)

\* a table of 5 columns, fewer than the 14 of the message, gave an option row
C11_Witness ==
    /\ pc = "done"
    /\ ncols = 5
    /\ Len(df_input) = 2
    /\ out_options.index = 1
    /\ Str(col(out_options, "SecurityIdentifier")[1]) = "UPDATE"

\* the ticker of the only row of a one-row table, when it is a future row
OneFutureTicker == col(out_futures, "SecurityIdentifier")[1]

\* a symbol that a mapping lacks, or maps to "UPDATE"
Unmapped(m, symbol) == symbol \notin DOMAIN m \/ Str(m[symbol]) = "UPDATE"

\* the row of a one-row table was emitted once, with the ticker "UPDATE"
EmittedAsUpdate ==
    IF IsOptionRow(df_input[1])
    THEN /\ out_options.index = 1
         /\ out_futures.index = 0
         /\ Str(OneTicker) = "UPDATE"
    ELSE /\ out_futures.index = 1
         /\ out_options.index = 0
         /\ Str(OneFutureTicker) = "UPDATE"

\* C12 as stated: every option or future row whose expiry is unparseable,
\* whose symbol the symbol mapping lacks, or whose option type is
\* unrecognized is emitted once with SecurityIdentifier "UPDATE".
C12_AsStated ==
    (OneOption \/ OneFuture) =>
        LET row == df_input[1]
        IN  (\/ ~parse_date(row.expiry).ok
             \/ row.symbol \notin DOMAIN futures_map
             \/ _get_cp_letter(row.option_type) = <<>>) => EmittedAsUpdate

\* C12, amended: every option or future row of a table of 5 or more columns
\* is emitted exactly once, whatever its fields hold.  An option row is
\* emitted with "UPDATE" when its expiry is unparseable, its option type is
\* unrecognized, or its symbol is unmapped in the mapping its instrument text
\* selects (the symbol mapping for exactly OPTSTK, the index mapping
\* otherwise).  A future row is emitted with "UPDATE" when its expiry is
\* unparseable or the symbol mapping lacks its symbol; its option type is
\* not read.
C12_FailureIsUpdate ==
    /\ (pc = "done" /\ Len(df_input) = 1) =>
           /\ out_options.index = Len(OptionRows)
           /\ out_futures.index = Len(FutureRows)
    /\ OneOption =>
           LET row == df_input[1]
               m   == IF Str(row.instrument) = "OPTSTK"
                      THEN futures_map ELSE INDEX_OPTIONS_MAPPING
           IN  (\/ ~parse_date(row.expiry).ok
                \/ Unmapped(m, row.symbol)
                \/ _get_cp_letter(row.option_type) = <<>>) => EmittedAsUpdate
    /\ OneFuture =>
           LET row == df_input[1]
           IN  (\/ ~parse_date(row.expiry).ok
                \/ Unmapped(futures_map, row.symbol)) => EmittedAsUpdate

\* a future row with a mapped symbol and no expiry was emitted with "UPDATE"
C12_Witness ==
    /\ OneFuture
    /\ ncols = 14
    /\ Str(df_input[1].instrument) = "FUTIDX"
    /\ df_input[1].symbol = NIFTY
    /\ df_input[1].expiry = <<>>
    /\ futures_map = DEFAULT_FUTURES_MAPPING
    /\ out_futures.index = 1
    /\ Str(OneFutureTicker) = "UPDATE"

\* cell i of a column of an output table, as text
Cell(df, name, i) == Str(col(df, name)[i])

\* the strike text of an input row as extract_data hands it on
StrikeOf(row) == sub_zero_decimals(remove(row.strike, ","))

\* C13: in each output table, row i is computed from row i of the table's
\* group of input rows (option rows, future rows) taken in input order: its
\* SecurityIdentifier, ActionCode, Strategy, Quantity, Price and Counterparty
\* all come from that one input row.
C13_RowOrder ==
    pc = "done" =>
        /\ out_options.index = Len(OptionRows)
        /\ out_futures.index = Len(FutureRows)
        /\ \A i \in DOMAIN OptionRows :
               LET row == OptionRows[i]
               IN  /\ col(out_options, "SecurityIdentifier")[i]
                         = build_option_ticker(futures_map, row.instrument,
                                               row.symbol, row.expiry,
                                               StrikeOf(row), row.option_type)
                   /\ col(out_options, "ActionCode")[i] = action_code(row.side)
                   /\ col(out_options, "Strategy")[i]
                         = option_strategy(row.side, row.option_type)
                   /\ col(out_options, "Quantity")[i] = row.quantity
                   /\ col(out_options, "Price")[i] = row.price
                   /\ col(out_options, "Counterparty")[i] = row.tm_name
        /\ \A i \in DOMAIN FutureRows :
               LET row == FutureRows[i]
               IN  /\ col(out_futures, "SecurityIdentifier")[i]
                         = build_futures_ticker(futures_map, row.instrument,
                                                row.symbol, row.expiry)
                   /\ col(out_futures, "ActionCode")[i] = action_code(row.side)
                   /\ col(out_futures, "Strategy")[i] = futures_strategy(row.side)
                   /\ col(out_futures, "Quantity")[i] = row.quantity
                   /\ col(out_futures, "Price")[i] = row.price
                   /\ col(out_futures, "Counterparty")[i] = row.tm_name

\* two option rows that differ in counterparty, ticker and price came out in
\* input order
C13_Witness ==
    /\ pc = "done"
    /\ ncols = 14
    /\ futures_map = MapScenario
    /\ Len(df_input) = 2
    /\ Str(df_input[1].tm_name) = "TM2"
    /\ Str(df_input[1].instrument) = "OPTSTK"
    /\ Str(df_input[2].tm_name) = "TM1"
    /\ df_input[2].symbol = TCS
    /\ out_options.index = 2
    /\ Cell(out_options, "Counterparty", 1) = "TM2"
    /\ Cell(out_options, "Counterparty", 2) = "TM1"
    /\ Cell(out_options, "SecurityIdentifier", 1) = "RELIANCE IS 01/15/25 C2500 Equity"
    /\ Cell(out_options, "SecurityIdentifier", 2) = "UPDATE"
    /\ Cell(out_options, "Price", 1) = "100.5"
    /\ Cell(out_options, "Price", 2) = "7"

\* the constant columns of the two output tables and their configured values
CommonConstants ==
    << <<"RequestType", "NEW">>, <<"ExternalReference", "PLEASE FILL">>,
       <<"RevisionNumber", "1">>, <<"SettlementCurrency", "INR">>,
       <<"LegalEntity", "AUM01">>, <<"Trader", "Anurag Gupta">> >>
OptionsConstants ==
    CommonConstants \o << <<"OptionClearer", "GS India Futures">>,
                          <<"OptionClearerAccount", "OOI93890">> >>
FuturesConstants ==
    CommonConstants \o << <<"FuturesClearer", "GS India Futures">>,
                          <<"FuturesClearerAccount", "OOI93890">> >>

\* every row of a table holds, in each of the given columns, the given text
HoldsConstants(df, consts) ==
    \A k \in DOMAIN consts : \A i \in 1..df.index :
        col(df, consts[k][1])[i] # NaN /\ Cell(df, consts[k][1], i) = consts[k][2]

\* C14 as stated: every row of either output table carries the configured
\* literal in every constant column: LegalEntity, SettlementCurrency, clearer
\* name, clearer account and Trader, and also RequestType "NEW",
\* ExternalReference "PLEASE FILL" and RevisionNumber "1".
C14_AsStated ==
    pc = "done" =>
        /\ HoldsConstants(out_options, OptionsConstants)
        /\ HoldsConstants(out_futures, FuturesConstants)

\* an option row was emitted whose RequestType, ExternalReference and
\* RevisionNumber are NaN, beside the configured LegalEntity and Trader
C14_Witness ==
    /\ pc = "done"
    /\ ncols = 14
    /\ df_input = <<ScenarioOption>>
    /\ out_options.index = 1
    /\ col(out_options, "RequestType")[1] = NaN
    /\ col(out_options, "ExternalReference")[1] = NaN
    /\ col(out_options, "RevisionNumber")[1] = NaN
    /\ Cell(out_options, "LegalEntity", 1) = "AUM01"
    /\ Cell(out_options, "Trader", 1) = "Anurag Gupta"
    /\ Cell(out_options, "SecurityIdentifier", 1) = "RELIANCE IS 01/15/25 C2500 Equity"

\* a text ends with a given text
EndsWith(s, p) == Len(s) >= Len(p) /\ SubSeq(s, Len(s) - Len(p) + 1, Len(s)) = p

\* process_trades classifies the row as single-stock
IsSingleStock(row) == Str(upper(row.instrument)) \in {"OPTSTK", "FUTSTK"}

\* the ticker emitted for the only row of a one-row table
OneRowTicker == IF IsOptionRow(df_input[1]) THEN OneTicker ELSE OneFutureTicker

\* a ticker in the single-stock format, "... IS ... Equity"
SingleStockFormat(t) ==
    /\ EndsWith(t, <<" ","E","q","u","i","t","y">>)
    /\ contains(t, <<" ","I","S"," ">>)

\* C15 as stated: every row classified as single-stock (OPTSTK or FUTSTK
\* after uppercasing) gets a SecurityIdentifier in the single-stock format or
\* "UPDATE", and never one in the index format ending in " Index".
C15_AsStated ==
    ((OneOption \/ OneFuture) /\ IsSingleStock(df_input[1])) =>
        /\ OneRowTicker = UPDATE \/ SingleStockFormat(OneRowTicker)
        /\ ~EndsWith(OneRowTicker, <<" ","I","n","d","e","x">>)

\* a row with instrument "futstk" was classified as a future row and got a
\* ticker in the index format
C15_Witness ==
    /\ OneFuture
    /\ ncols = 14
    /\ Str(df_input[1].instrument) = "futstk"
    /\ df_input[1].symbol = RELIANCE
    /\ Str(df_input[1].expiry) = "30/01/2025"
    /\ futures_map = MapScenario
    /\ Str(OneFutureTicker) = "RELIANCEF5 Index"

\* ActionCode and Strategy of row 1 of an output table name the same side
SidesAgree(df) ==
    /\ Cell(df, "Strategy", 1) = "FULO" <=> Cell(df, "ActionCode", 1) = "B"
    /\ Cell(df, "Strategy", 1) = "FUSH" <=> Cell(df, "ActionCode", 1) = "S"

\* C16 as stated: for every future row, and for every option row whose option
\* type classifies as Call, Strategy is FULO exactly when ActionCode is "B"
\* and FUSH exactly when ActionCode is "S", whatever the side text.
C16_AsStated ==
    /\ OneFuture => SidesAgree(out_futures)
    /\ (OneOption /\ Str(_get_cp_letter(df_input[1].option_type)) = "C")
           => SidesAgree(out_options)

\* a call bought with side " BUY" was emitted with ActionCode "S" and
\* Strategy "FULO"
C16_Witness ==
    /\ OneOption
    /\ ncols = 14
    /\ Str(df_input[1].side) = " BUY"
    /\ Str(df_input[1].option_type) = "CE"
    /\ Cell(out_options, "ActionCode", 1) = "S"
    /\ Cell(out_options, "Strategy", 1) = "FULO"

====
